---- MODULE Spec2Model ----
(***************************************************************************)
(* Model of the solve-orchestration bridge of the NYT Connections solver:  *)
(* the POST /api/solve route handler (the newer route, with top_solution   *)
(* and all_predictions), the solver process it spawns, the extraction of   *)
(* the structured payload from the process's primary output and the        *)
(* shaping of the response.                                                *)
(*                                                                         *)
(* Text is modelled as a sequence of characters.  The characters are the   *)
(* strings "sp" (a blank), "nl" (a line feed), "x" (any other character),  *)
(* "{", "[", "}", "]" and "json", which stands for the body of the         *)
(* serialisation of the result the embedded script writes.  Error messages *)
(* are sequences of words.  A word of the puzzle is a pair <<k, c>>: the    *)
(* k-th word, spelled in upper case (c = "U") or in lower case (c = "l").  *)
(***************************************************************************)
EXTENDS Integers, Sequences, FiniteSets, TLC

VARIABLES
    pc,          \* position of the handler: "idle", "awaiting", "responded", "extracted"
    apiKey,      \* process.env.OPENAI_API_KEY ("" when not configured)
    req,         \* the parsed request body
    clock,       \* wall clock in milliseconds (Date.now())
    fs,          \* names of the temp script files that exist in os.tmpdir()
    tmpFile,     \* name of this request's temp script file (NoFile before it is chosen)
    proc,        \* the spawned process: "none", "running", "spawnfail", "crashed", "killed", "closed"
    result,      \* what the embedded script serialised (the "json" of the text)
    wrote,       \* whether the embedded script has written its result line
    stdout,      \* the closure variable stdout of the spawn promise
    stderr,      \* the closure variable stderr of the spawn promise
    timer,       \* the 60 s timer: "none", "armed", "cleared", "fired"
    deadline,    \* the time at which the timer is due
    promise,     \* the spawn promise: state, resolved value, rejection message
    jsonLine,    \* the text handed to JSON.parse (NotParsed before)
    responses,   \* the responses returned for the request, in order
    spawns,      \* number of processes spawned
    kills,       \* number of kill() calls issued
    writes,      \* number of writeFileSync calls made
    exitCode,    \* the code the 'close' handler was called with (<<>> before)
    handlers,    \* two requests handled concurrently: position, temp file, outcome
    \* the page (Home) and the Solver component
    puzzleData,          \* Home: the fetched puzzle (NoPuzzle before the first fetch)
    predictions,         \* Home: the predictions shown on the word grid
    prevPuzzleIdRef,     \* Solver: prevPuzzleIdRef.current (<<>> for null)
    topSolution,         \* Solver state
    allPredictions,      \* Solver state
    excludedPredictions, \* Solver state
    loading,             \* Solver state
    useLLM,              \* Solver state
    solveTime,           \* Solver state (<<>> for null)
    error,               \* Solver state (<<>> for null)
    allWordsCovered,     \* Solver state
    inflight,            \* the solvePuzzle calls suspended at `await fetch`
    lastEvent            \* the last thing that happened in the Solver

serverVars == <<pc, apiKey, req, clock, fs, tmpFile, proc, result, wrote,
                stdout, stderr, timer, deadline, promise, jsonLine, responses,
                spawns, kills, writes, exitCode, handlers>>

serverVars_but_pc ==
    <<apiKey, req, clock, fs, tmpFile, proc, result, wrote, stdout, stderr,
      timer, deadline, promise, jsonLine, responses, spawns, kills, writes,
      exitCode, handlers>>


serverVars_but_pc_responses ==
    <<apiKey, req, clock, fs, tmpFile, proc, result, wrote, stdout, stderr,
      timer, deadline, promise, jsonLine, spawns, kills, writes, exitCode,
      handlers>>

clientVars == <<puzzleData, predictions, prevPuzzleIdRef, topSolution,
                allPredictions, excludedPredictions, loading, useLLM,
                solveTime, error, allWordsCovered, inflight, lastEvent>>

vars == <<serverVars, clientVars>>

(***************************************************************************)
(* Bounds of the model.                                                    *)
(***************************************************************************)
MaxPreds == 5          \* groups the engine may return in one list
MaxChunks == 3         \* data events on the primary output of one process
MaxLen == 6            \* length of the texts of the extraction specification
TickMs == 30000        \* granularity of the clock
MaxClock == 2          \* milliseconds that pass while two requests are handled
MaxPuzzles == 2        \* puzzle identities the page may fetch
MaxExcluded == 1       \* groups the user excludes before clearing
MaxInflight == 2       \* solvePuzzle calls suspended at once

(***************************************************************************)
(* Program constants.                                                      *)
(***************************************************************************)
WORD_COUNT == 16       \* words.length !== 16
TOP_SIZE == 4          \* slice(0, 4), topSolution.length === 4
TIMEOUT_MS == 60000    \* setTimeout(..., 60000)

(***************************************************************************)
(* Words and groups.                                                       *)
(***************************************************************************)
toUpperCase(w) == <<w[1], "U">>

toLowerCase(w) == <<w[1], "l">>

Range(s) == {s[i] : i \in 1..Len(s)}

UpperSet(ws) == {toUpperCase(ws[i]) : i \in 1..Len(ws)}

\* The k-th group the engine knows: groups 1..4 partition the 16 words, the
\* later ones overlap two neighbouring groups.
GroupK(k) ==
    [words |-> [j \in 1..4 |->
        <<((4 * (k - 1) + (j - 1) + (IF k > 4 THEN 2 ELSE 0)) % WORD_COUNT) + 1,
          "U">>]]

Pool == [k \in 1..MaxPreds |-> GroupK(k)]

Prefix(s, n) == SubSeq(s, 1, IF n < Len(s) THEN n ELSE Len(s))

(***************************************************************************)
(* Text: String.prototype.trim, split('\n'), startsWith, includes.         *)
(***************************************************************************)
IsSpace(c) == c \in {"sp", "nl"}

RECURSIVE trimStart(_)
trimStart(s) ==
    IF s = <<>> THEN s
    ELSE IF IsSpace(Head(s)) THEN trimStart(Tail(s)) ELSE s

RECURSIVE trimEnd(_)
trimEnd(s) ==
    IF s = <<>> THEN s
    ELSE IF IsSpace(s[Len(s)]) THEN trimEnd(SubSeq(s, 1, Len(s) - 1)) ELSE s

trim(s) == trimEnd(trimStart(s))

\* s.split('\n'): the lines of s; the empty text has one (empty) line.
RECURSIVE split(_)
split(s) ==
    IF \A i \in 1..Len(s) : s[i] # "nl" THEN <<s>>
    ELSE LET i == CHOOSE k \in 1..Len(s) :
                      s[k] = "nl" /\ \A j \in 1..(k - 1) : s[j] # "nl"
         IN  <<SubSeq(s, 1, i - 1)>> \o split(SubSeq(s, i + 1, Len(s)))

startsWith(s, c) == Len(s) > 0 /\ s[1] = c

\* message.includes(w), at the granularity of words
includes(msg, w) == \E i \in 1..Len(msg) : msg[i] = w

(***************************************************************************)
(* Extraction of the payload line from the primary output.                 *)
(***************************************************************************)
\* scanBack that keeps the matching line untrimmed
RECURSIVE scanBack_noTrim(_, _, _)
scanBack_noTrim(lines, i, dflt) ==
    IF i < 1 THEN dflt
    ELSE IF startsWith(trim(lines[i]), "{") \/ startsWith(trim(lines[i]), "[")
         THEN lines[i]
         ELSE scanBack_noTrim(lines, i - 1, dflt)

\* the loop `for (let i = lines.length - 1; i >= 0; i--)`, from index i down;
\* dflt is the value jsonLine keeps when no line matches
RECURSIVE scanBack(_, _, _)
scanBack(lines, i, dflt) ==
    IF i < 1 THEN dflt
    ELSE IF startsWith(trim(lines[i]), "{") \/ startsWith(trim(lines[i]), "[")
         THEN trim(lines[i])
         ELSE scanBack(lines, i - 1, dflt)

\* selectJsonLine without the backward scan
selectJsonLine_lastOnly(out) ==
    LET lines == split(trim(out))
    IN  lines[Len(lines)]

\* the value of jsonLine when JSON.parse is called
selectJsonLine(out) ==
    LET lines == split(trim(out))
        last  == lines[Len(lines)]
    IN  IF ~startsWith(last, "{") /\ ~startsWith(last, "[")
        THEN scanBack(lines, Len(lines), last)
        ELSE last

(***************************************************************************)
(* Payloads.  A field of a payload is present or not; a present list field *)
(* holds a sequence of groups.                                             *)
(***************************************************************************)
Absent == [present |-> FALSE, val |-> <<>>]

Some(v) == [present |-> TRUE, val |-> v]

EmptyObject ==
    [top_solution |-> Absent, all_predictions |-> Absent,
     predictions |-> Absent, all_words_covered |-> "undefined"]

\* JSON.parse(line), where res is the value whose serialisation "json" stands
\* for.  ok = FALSE is a SyntaxError.  "{}" and "[]" are valid JSON with none
\* of the fields the route reads.
JSONParse(line, res) ==
    LET t == trim(line)
    IN  IF t = <<"{", "json", "}">> THEN [ok |-> TRUE, val |-> res]
        ELSE IF t = <<"{", "}">> \/ t = <<"[", "]">>
             THEN [ok |-> TRUE, val |-> EmptyObject]
             ELSE [ok |-> FALSE, val |-> EmptyObject]

(***************************************************************************)
(* The embedded solver script: the exclude_words filter.                   *)
(***************************************************************************)
\* `for pred in result['predictions']` raises KeyError without the key
scriptKeyError(res, ex) == ex # <<>> /\ ~res.predictions.present

keepsPrediction(p, ex) == UpperSet(p.words) \cap UpperSet(ex) = {}

scriptFilter(res, ex) ==
    IF ex = <<>> THEN res
    ELSE [res EXCEPT !.predictions =
              Some(SelectSeq(res.predictions.val,
                             LAMBDA p : keepsPrediction(p, ex)))]

(***************************************************************************)
(* Response shaping.                                                       *)
(***************************************************************************)
\* shapeTopSolution that prefers the flat list
shapeTopSolution_flatFirst(sr) ==
    IF sr.predictions.present THEN Prefix(sr.predictions.val, TOP_SIZE)
    ELSE IF sr.top_solution.present THEN sr.top_solution.val
    ELSE <<>>

shapeTopSolution(sr) ==
    IF sr.top_solution.present THEN sr.top_solution.val
    ELSE IF sr.predictions.present THEN Prefix(sr.predictions.val, TOP_SIZE)
    ELSE <<>>

shapeAllPredictions(sr) ==
    IF sr.all_predictions.present THEN sr.all_predictions.val
    ELSE IF sr.predictions.present THEN sr.predictions.val
    ELSE <<>>

shapeAllWordsCovered(sr) ==
    IF sr.all_words_covered # "undefined" THEN sr.all_words_covered
    ELSE IF Len(shapeTopSolution(sr)) = TOP_SIZE THEN "true" ELSE "false"

\* the body and status of a response
Failure(st, msg) ==
    [status |-> st, success |-> FALSE, error |-> msg, top_solution |-> <<>>,
     all_predictions |-> <<>>, all_words_covered |-> "undefined"]

Success(sr) ==
    [status |-> 200, success |-> TRUE, error |-> <<>>,
     top_solution |-> shapeTopSolution(sr),
     all_predictions |-> shapeAllPredictions(sr),
     all_words_covered |-> shapeAllWordsCovered(sr)]

(***************************************************************************)
(* Inputs: request bodies, engine results, output of the process.          *)
(***************************************************************************)
\* the words of the puzzle, and an array of n words
WordArray(n) == [i \in 1..n |-> <<((i - 1) % WORD_COUNT) + 1, "U">>]

WordsValues ==
    {[kind |-> "undefined", val |-> <<>>],
     [kind |-> "string", val |-> WordArray(WORD_COUNT)]}
    \cup {[kind |-> "array", val |-> WordArray(n)] :
             n \in {0, WORD_COUNT - 1, WORD_COUNT, WORD_COUNT + 1}}

\* exclude_words: nothing, or the words of the first group in lower case
ExcludeChoices ==
    {<<>>, [j \in 1..4 |-> toLowerCase(GroupK(1).words[j])]}

\* a body request.json() cannot parse
Unparsable ==
    [parsable |-> FALSE, words |-> [kind |-> "undefined", val |-> <<>>],
     use_llm |-> FALSE, exclude_words |-> <<>>]

Bodies ==
    {Unparsable} \cup
    [parsable : {TRUE}, words : WordsValues, use_llm : BOOLEAN,
     exclude_words : ExcludeChoices]

NoRequest == Unparsable

\* what solve_puzzle may return: a flat list (older shape), explicit lists
\* (newer shape) with or without the flat one, or an object with no list
\* (with or without the flag)
FlatLists ==
    {Prefix(Pool, n) : n \in 0..MaxPreds} \cup {[k \in 1..TOP_SIZE |-> GroupK(1)]}

EngineResults ==
    {[EmptyObject EXCEPT !.predictions = Some(l)] : l \in FlatLists}
    \cup {[top_solution |-> Some(t), all_predictions |-> Some(Pool),
           predictions |-> Some(Pool), all_words_covered |-> f] :
             t \in {Prefix(Pool, TOP_SIZE - 1), Prefix(Pool, TOP_SIZE), Pool},
             f \in {"true", "false", "undefined"}}
    \cup {[top_solution |-> Some(Prefix(Pool, TOP_SIZE)),
           all_predictions |-> Some(Pool), predictions |-> Absent,
           all_words_covered |-> "true"]}
    \cup {EmptyObject, [EmptyObject EXCEPT !.all_words_covered = "true"]}

\* lines the engine may print on the primary output besides the result
ProgressChunks ==
    {<<"x", "nl">>, <<"[", "x", "nl">>, <<"sp", "{", "}", "sp", "nl">>}

ResultChunk == <<"{", "json", "}", "nl">>

\* what the process may print on the diagnostic output
DiagChunks == {<<"DEBUG:">>, <<"Read", "timeout">>}

Traceback == <<"KeyError:", "predictions">>

NumChunks(out) == Cardinality({i \in 1..Len(out) : out[i] = "nl"})

(***************************************************************************)
(* Messages.                                                               *)
(***************************************************************************)
InvalidInputMessage == <<"Invalid", "input:", "words", "must", "be", "an",
                         "array", "of", "exactly", "16", "words">>

MissingKeyMessage == <<"OPENAI_API_KEY", "not", "found", "in", "environment",
                       "variables">>

TimeoutMessage == <<"Request", "timeout", "after", "60", "seconds">>

SolverTimeoutMessage == <<"Solver", "timeout:", "Request", "took", "longer",
                          "than", "30", "seconds">>

ExitMessage(code) == <<"Process", "exited", "with", "code", ToString(code)>>

SpawnErrorMessage == <<"spawn", "python3", "ENOENT">>

SyntaxErrorMessage == <<"Unexpected", "token">>

WriteErrorMessage == <<"ENOSPC:", "no", "space", "left", "on", "device">>

(***************************************************************************)
(* The spawn promise: it settles once.                                     *)
(***************************************************************************)
NoPromise ==
    [state |-> "none", stdout |-> <<>>, stderr |-> <<>>, error |-> <<>>,
     handled |-> FALSE]

Pending == [NoPromise EXCEPT !.state = "pending"]

resolve(p, out, err) ==
    IF p.state = "pending"
    THEN [state |-> "resolved", stdout |-> out, stderr |-> err,
          error |-> <<>>, handled |-> FALSE]
    ELSE p

\* reject that settles a promise again
reject_again(p, msg) ==
    [state |-> "rejected", stdout |-> <<>>, stderr |-> <<>>,
     error |-> msg, handled |-> FALSE]

reject(p, msg) ==
    IF p.state = "pending"
    THEN [state |-> "rejected", stdout |-> <<>>, stderr |-> <<>>,
          error |-> msg, handled |-> FALSE]
    ELSE p

\* the code after `await` has yet to run
ContinuationPending ==
    promise.state \in {"resolved", "rejected"} /\ ~promise.handled

\* the timer is due: its callback runs before any later event
Due == timer = "armed" /\ clock >= deadline

NotParsed == <<"undefined">>

(***************************************************************************)
(* The route handler.                                                      *)
(***************************************************************************)

\* no request is being handled by the pair of handlers
NoHandlers ==
    [i \in 1..2 |-> [pc |-> "idle", tmpFile |-> <<>>, outcome |-> 0]]

NoPuzzle == [puzzle_id |-> 0, words |-> <<>>]

NoEvent == [event |-> "none", hadResults |-> FALSE]

\* the page before the first puzzle is fetched: the Solver is not mounted
ClientInit ==
    /\ puzzleData = NoPuzzle
    /\ predictions = Absent
    /\ prevPuzzleIdRef = <<>>
    /\ topSolution = <<>>
    /\ allPredictions = <<>>
    /\ excludedPredictions = <<>>
    /\ loading = FALSE
    /\ useLLM = FALSE
    /\ solveTime = <<>>
    /\ error = <<>>
    /\ allWordsCovered = FALSE
    /\ inflight = <<>>
    /\ lastEvent = NoEvent

Init ==
    /\ ClientInit
    /\ exitCode = <<>>
    /\ handlers = NoHandlers
    /\ pc = "idle"
    /\ apiKey \in {"", "sk"}
    /\ req = NoRequest
    /\ clock = 0
    /\ fs = {}
    /\ tmpFile = <<>>
    /\ proc = "none"
    /\ result = EmptyObject
    /\ wrote = FALSE
    /\ stdout = <<>>
    /\ stderr = <<>>
    /\ timer = "none"
    /\ deadline = 0
    /\ promise = NoPromise
    /\ jsonLine = NotParsed
    /\ responses = <<>>
    /\ spawns = 0
    /\ kills = 0
    /\ writes = 0

\* invalidWords without the Array.isArray test
invalidWords_noArrayCheck(words) ==
    \/ words.kind = "undefined"
    \/ Len(words.val) # WORD_COUNT

\* `!words || !Array.isArray(words) || words.length !== 16`
invalidWords(words) ==
    \/ words.kind = "undefined"
    \/ (words.kind = "string" /\ words.val = <<>>)
    \/ words.kind # "array"
    \/ Len(words.val) # WORD_COUNT

\* missingCredential without the use_llm test
missingCredential_keyOnly(body, key) == key = ""

\* `use_llm && !apiKey`
missingCredential(body, key) == body.use_llm /\ key = ""

\* the catch of the inner try: 504 for a message that includes 'timeout',
\* 500 for any other
catchResponse(msg) ==
    IF includes(msg, "timeout")
    THEN Failure(504, SolverTimeoutMessage)
    ELSE Failure(500, <<"Solver", "error:">> \o
                      (IF msg # <<>> THEN msg
                       ELSE <<"Unknown", "error", "occurred">>))


\* the catch of the outer try that sends no message
outerCatchResponse_noMessage(msg) == Failure(400, <<>>)

\* the catch of the outer try
outerCatchResponse(msg) ==
    Failure(400, IF msg # <<>> THEN msg ELSE <<"Invalid", "request", "format">>)

\* The handler from the arrival of the request to the first await on the
\* spawn promise: body parse, validation, credential check, temp file, spawn,
\* timer.  writeOk and spawnOk are the outcomes of writeFileSync and spawn.
POST(body, writeOk, spawnOk) ==
    /\ pc = "idle"
    /\ req' = body
    /\ IF ~body.parsable \/ invalidWords(body.words)
          \/ missingCredential(body, apiKey)
       THEN /\ responses' = Append(responses,
                 IF ~body.parsable THEN outerCatchResponse(SyntaxErrorMessage)
                 ELSE IF invalidWords(body.words)
                      THEN Failure(400, InvalidInputMessage)
                      ELSE Failure(400, MissingKeyMessage))
            /\ pc' = "responded"
            /\ UNCHANGED <<fs, tmpFile, proc, timer, deadline, promise,
                           spawns, writes>>
       ELSE /\ tmpFile' = <<clock>>
            /\ writes' = writes + 1
            /\ IF ~writeOk
               THEN /\ responses' =
                         Append(responses, outerCatchResponse(WriteErrorMessage))
                    /\ pc' = "responded"
                    /\ UNCHANGED <<fs, proc, timer, deadline, promise, spawns>>
               ELSE /\ fs' = fs \cup {clock}
                    /\ spawns' = spawns + 1
                    /\ proc' = IF spawnOk THEN "running" ELSE "spawnfail"
                    /\ timer' = "armed"
                    /\ deadline' = clock + TIMEOUT_MS
                    /\ promise' = Pending
                    /\ pc' = "awaiting"
                    /\ UNCHANGED responses
    /\ UNCHANGED <<apiKey, clock, result, wrote, stdout, stderr, jsonLine,
                   kills>>
    /\ UNCHANGED <<exitCode, handlers, clientVars>>

\* The engine prints a line on the primary output; the 'data' handler
\* appends it to stdout.
StdoutData(chunk) ==
    /\ proc = "running" /\ ~Due /\ ~ContinuationPending
    /\ NumChunks(stdout) < MaxChunks
    /\ stdout' = stdout \o chunk
    /\ UNCHANGED <<pc, apiKey, req, clock, fs, tmpFile, proc, result, wrote,
                   stderr, timer, deadline, promise, jsonLine, responses,
                   spawns, kills, writes>>
    /\ UNCHANGED <<exitCode, handlers, clientVars>>

\* The process prints on the diagnostic output; the 'data' handler appends
\* it to stderr.
StderrData(chunk) ==
    /\ proc = "running" /\ ~Due /\ ~ContinuationPending
    /\ stderr = <<>>
    /\ stderr' = stderr \o chunk
    /\ UNCHANGED <<pc, apiKey, req, clock, fs, tmpFile, proc, result, wrote,
                   stdout, timer, deadline, promise, jsonLine, responses,
                   spawns, kills, writes>>
    /\ UNCHANGED <<exitCode, handlers, clientVars>>

\* The embedded script, once solve_puzzle has returned r: it filters the
\* flat list by exclude_words (KeyError when the list is missing) and writes
\* the serialised result and a line feed.
ScriptWrite(r) ==
    /\ proc = "running" /\ ~Due /\ ~ContinuationPending
    /\ ~wrote
    /\ NumChunks(stdout) < MaxChunks
    /\ IF scriptKeyError(r, req.exclude_words)
       THEN /\ stderr' = stderr \o Traceback
            /\ proc' = "crashed"
            /\ UNCHANGED <<result, wrote, stdout>>
       ELSE /\ result' = scriptFilter(r, req.exclude_words)
            /\ wrote' = TRUE
            /\ stdout' = stdout \o ResultChunk
            /\ UNCHANGED <<stderr, proc>>
    /\ UNCHANGED <<pc, apiKey, req, clock, fs, tmpFile, timer, deadline,
                   promise, jsonLine, responses, spawns, kills, writes>>
    /\ UNCHANGED <<exitCode, handlers, clientVars>>

\* the exit codes a process in state p may close with (-1 stands for the
\* null code of a process ended by a signal, -2 for a failed spawn)
ExitCodes(p) ==
    CASE p = "running" -> {0, 1}
      [] p = "crashed" -> {1}
      [] p = "killed"  -> {-1}
      [] p = "errored" -> {-2}
      [] OTHER         -> {}

\* closeRejects that looks at the exit code only
closeRejects_codeOnly(code, out) == code # 0

\* `code !== 0 && !stdout`
closeRejects(code, out) == code # 0 /\ out = <<>>

\* The 'close' handler.
Close(code) ==
    /\ code \in ExitCodes(proc)
    /\ ~Due /\ ~ContinuationPending
    /\ proc' = "closed"
    /\ timer' = IF timer = "armed" THEN "cleared" ELSE timer
    /\ promise' = IF closeRejects(code, stdout)
                  THEN reject(promise,
                              IF stderr # <<>> THEN stderr ELSE ExitMessage(code))
                  ELSE resolve(promise, stdout, stderr)
    /\ UNCHANGED <<pc, apiKey, req, clock, fs, tmpFile, result, wrote, stdout,
                   stderr, deadline, jsonLine, responses, spawns, kills,
                   writes>>
    /\ exitCode' = <<code>>
    /\ UNCHANGED <<handlers, clientVars>>

\* The 'error' handler: the process could not be spawned.
ProcError ==
    /\ proc = "spawnfail"
    /\ ~ContinuationPending
    /\ proc' = "errored"
    /\ timer' = IF timer = "armed" THEN "cleared" ELSE timer
    /\ promise' = reject(promise, SpawnErrorMessage)
    /\ UNCHANGED <<pc, apiKey, req, clock, fs, tmpFile, result, wrote, stdout,
                   stderr, deadline, jsonLine, responses, spawns, kills,
                   writes>>
    /\ UNCHANGED <<exitCode, handlers, clientVars>>

\* a timer callback that kills the process and leaves the promise pending
Timeout_killOnly ==
    /\ Due
    /\ ~ContinuationPending
    /\ timer' = "fired"
    /\ kills' = kills + 1
    /\ proc' = IF proc \in {"running", "crashed"} THEN "killed" ELSE proc
    /\ UNCHANGED promise
    /\ UNCHANGED <<pc, apiKey, req, clock, fs, tmpFile, result, wrote, stdout,
                   stderr, deadline, jsonLine, responses, spawns, writes>>
    /\ UNCHANGED <<exitCode, handlers, clientVars>>

\* The callback of the 60 s timer.
Timeout ==
    /\ Due
    /\ ~ContinuationPending
    /\ timer' = "fired"
    /\ kills' = kills + 1
    /\ proc' = IF proc \in {"running", "crashed"} THEN "killed" ELSE proc
    /\ promise' = reject(promise, TimeoutMessage)
    /\ UNCHANGED <<pc, apiKey, req, clock, fs, tmpFile, result, wrote, stdout,
                   stderr, deadline, jsonLine, responses, spawns, writes>>
    /\ UNCHANGED <<exitCode, handlers, clientVars>>

\* The code after the await when the promise resolved: cleanup, the
\* diagnostics check, extraction, parse, shaping (or the inner catch).
AfterResolve ==
    /\ promise.state = "resolved" /\ ~promise.handled
    /\ promise' = [promise EXCEPT !.handled = TRUE]
    /\ fs' = fs \ Range(tmpFile)
    /\ IF promise.stderr # <<>> /\ promise.stdout = <<>>
       THEN /\ responses' = Append(responses, catchResponse(promise.stderr))
            /\ UNCHANGED jsonLine
       ELSE LET jl == selectJsonLine(promise.stdout)
                parsed == JSONParse(jl, result)
            IN  /\ jsonLine' = jl
                /\ responses' = Append(responses,
                        IF parsed.ok THEN Success(parsed.val)
                        ELSE catchResponse(SyntaxErrorMessage))
    /\ pc' = "responded"
    /\ UNCHANGED <<apiKey, req, clock, tmpFile, proc, result, wrote, stdout,
                   stderr, timer, deadline, spawns, kills, writes>>
    /\ UNCHANGED <<exitCode, handlers, clientVars>>

\* The code after the await when the promise rejected: the inner catch.
AfterReject ==
    /\ promise.state = "rejected" /\ ~promise.handled
    /\ promise' = [promise EXCEPT !.handled = TRUE]
    /\ responses' = Append(responses, catchResponse(promise.error))
    /\ pc' = "responded"
    /\ UNCHANGED <<apiKey, req, clock, fs, tmpFile, proc, result, wrote,
                   stdout, stderr, timer, deadline, jsonLine, spawns, kills,
                   writes>>
    /\ UNCHANGED <<exitCode, handlers, clientVars>>

\* Time passes while the process runs.
Tick ==
    /\ proc = "running" /\ timer = "armed" /\ clock < deadline
    /\ ~ContinuationPending
    /\ clock' = clock + TickMs
    /\ UNCHANGED <<pc, apiKey, req, fs, tmpFile, proc, result, wrote, stdout,
                   stderr, timer, deadline, promise, jsonLine, responses,
                   spawns, kills, writes>>
    /\ UNCHANGED <<exitCode, handlers, clientVars>>

Next ==
    \/ \E body \in Bodies, writeOk \in BOOLEAN, spawnOk \in BOOLEAN :
           POST(body, writeOk, spawnOk)
    \/ \E chunk \in ProgressChunks : StdoutData(chunk)
    \/ \E chunk \in DiagChunks : StderrData(chunk)
    \/ \E r \in EngineResults : ScriptWrite(r)
    \/ \E code \in {-2, -1, 0, 1} : Close(code)
    \/ ProcError
    \/ Timeout
    \/ AfterResolve
    \/ AfterReject
    \/ Tick

Spec == Init /\ [][Next]_vars

\* The scheduling the runtime gives: time passes while the process runs, a
\* due timer's callback runs, a failed spawn emits 'error', a process that
\* has exited emits 'close', and the code after a settled await runs.  A
\* running process is not assumed to ever close.
Scheduled ==
    \/ Tick
    \/ Timeout
    \/ ProcError
    \/ (proc = "crashed" /\ Close(1))
    \/ AfterReject

\* Weak fairness of the scheduled steps; for AfterResolve it is written
\* out, its enabling condition being that the promise is resolved and the
\* code after the await has not run.
Fairness ==
    /\ WF_vars(Scheduled)
    /\ \/ []<>(~(promise.state = "resolved" /\ ~promise.handled))
       \/ []<><<AfterResolve>>_vars

SpecLive == Spec /\ Fairness

(***************************************************************************)
(* The extraction on its own: every text up to MaxLen characters.          *)
(***************************************************************************)
Alphabet == {"sp", "nl", "x", "{", "["}

Texts == UNION {[1..n -> Alphabet] : n \in 0..MaxLen}

InitExtract ==
    /\ ClientInit
    /\ exitCode = <<>>
    /\ handlers = NoHandlers
    /\ pc = "idle"
    /\ apiKey = ""
    /\ req = NoRequest
    /\ clock = 0
    /\ fs = {}
    /\ tmpFile = <<>>
    /\ proc = "none"
    /\ result = EmptyObject
    /\ wrote = FALSE
    /\ stdout \in Texts
    /\ stderr = <<>>
    /\ timer = "none"
    /\ deadline = 0
    /\ promise = NoPromise
    /\ jsonLine = NotParsed
    /\ responses = <<>>
    /\ spawns = 0
    /\ kills = 0
    /\ writes = 0

\* lines 494-506 applied to the text in stdout
Extract ==
    /\ pc = "idle"
    /\ jsonLine' = selectJsonLine(stdout)
    /\ pc' = "extracted"
    /\ UNCHANGED <<apiKey, req, clock, fs, tmpFile, proc, result, wrote,
                   stdout, stderr, timer, deadline, promise, responses,
                   spawns, kills, writes>>
    /\ UNCHANGED <<exitCode, handlers, clientVars>>

NextExtract == Extract

SpecExtract == InitExtract /\ [][NextExtract]_vars

(***************************************************************************)
(* Shaping in the client (solvePuzzle, after `await response.json()`).     *)
(* The body of a response is read through the same optional fields as a    *)
(* payload.                                                                *)
(***************************************************************************)
\* the JSON body of a response of the solve route
AsData(resp) ==
    IF resp.success
    THEN [top_solution |-> Some(resp.top_solution),
          all_predictions |-> Some(resp.all_predictions),
          predictions |-> Absent,
          all_words_covered |-> resp.all_words_covered]
    ELSE EmptyObject

\* clientTopSolution that takes the whole flat list
clientTopSolution_noSlice(data) ==
    IF data.top_solution.present THEN data.top_solution.val
    ELSE IF data.predictions.present THEN data.predictions.val
    ELSE <<>>

\* `data.top_solution || data.predictions?.slice(0, 4) || []`
clientTopSolution(data) ==
    IF data.top_solution.present THEN data.top_solution.val
    ELSE IF data.predictions.present THEN Prefix(data.predictions.val, TOP_SIZE)
    ELSE <<>>

\* `data.all_predictions || data.predictions || []`
clientAllPredictions(data) ==
    IF data.all_predictions.present THEN data.all_predictions.val
    ELSE IF data.predictions.present THEN data.predictions.val
    ELSE <<>>

\* `data.all_words_covered !== undefined ? data.all_words_covered : false`
clientAllWordsCovered(data) == data.all_words_covered = "true"

(***************************************************************************)
(* The shaping on its own: every payload whose three list fields are       *)
(* absent or one of the lists of FlatLists, with any flag.                 *)
(***************************************************************************)
OptionalLists == {Absent} \cup {Some(l) : l \in FlatLists}

ShapePayloads ==
    [top_solution : OptionalLists, all_predictions : OptionalLists,
     predictions : OptionalLists,
     all_words_covered : {"true", "false", "undefined"}]

InitShape ==
    /\ ClientInit
    /\ exitCode = <<>>
    /\ handlers = NoHandlers
    /\ pc = "idle"
    /\ apiKey = ""
    /\ req = NoRequest
    /\ clock = 0
    /\ fs = {}
    /\ tmpFile = <<>>
    /\ proc = "none"
    /\ result \in ShapePayloads
    /\ wrote = FALSE
    /\ stdout = <<>>
    /\ stderr = <<>>
    /\ timer = "none"
    /\ deadline = 0
    /\ promise = NoPromise
    /\ jsonLine = NotParsed
    /\ responses = <<>>
    /\ spawns = 0
    /\ kills = 0
    /\ writes = 0

\* lines 511-548 applied to the payload in result
ShapeServer ==
    /\ pc = "idle"
    /\ responses' = <<Success(result)>>
    /\ pc' = "shaped"
    /\ UNCHANGED <<apiKey, req, clock, fs, tmpFile, proc, result, wrote,
                   stdout, stderr, timer, deadline, promise, jsonLine, spawns,
                   kills, writes, exitCode, handlers, clientVars>>

\* Solver.tsx lines 116-123 applied to the body of the response of the
\* route, or to the payload itself as a body
ShapeClient ==
    /\ pc \in {"idle", "shaped"}
    /\ LET data == IF pc = "shaped" THEN AsData(responses[1]) ELSE result
       IN  /\ topSolution' = clientTopSolution(data)
           /\ allPredictions' = clientAllPredictions(data)
           /\ allWordsCovered' = clientAllWordsCovered(data)
    /\ pc' = IF pc = "shaped" THEN "both" ELSE "client_shaped"
    /\ UNCHANGED <<serverVars_but_pc, puzzleData, predictions, prevPuzzleIdRef,
                   excludedPredictions, loading, useLLM, solveTime, error,
                   inflight, lastEvent>>

NextShape == ShapeServer \/ ShapeClient

SpecShape == InitShape /\ [][NextShape]_vars

(***************************************************************************)
(* The page and the Solver component.  A solve request is answered by the  *)
(* route of the first part: solveRoute is the response of the route when   *)
(* the process prints its result line only and exits with code 0, and the  *)
(* failures are those of the inner catch and of the network.               *)
(***************************************************************************)
PuzzleDatas ==
    {[puzzle_id |-> i, words |-> WordArray(WORD_COUNT)] : i \in 1..MaxPuzzles}
    \cup {[puzzle_id |-> 1, words |-> WordArray(WORD_COUNT - 1)]}

\* the same group spelled in lower case, its words in reverse order
Respelled(g) == [words |-> [j \in 1..4 |-> toLowerCase(g.words[5 - j])]]

\* the candidates of the engine in the client specification: the four
\* groups of the solution, a group that overlaps two of them, and the first
\* group respelled
Candidates ==
    [k \in 1..TOP_SIZE |-> GroupK(k)]
        \o <<GroupK(TOP_SIZE + 1), Respelled(GroupK(1))>>

\* what solve_puzzle may return in the client specification: the flat list,
\* the explicit lists, or an object with no list
ClientResults ==
    {[EmptyObject EXCEPT !.predictions = Some(Candidates)],
     [top_solution |-> Some(Prefix(Candidates, TOP_SIZE)),
      all_predictions |-> Some(Candidates),
      predictions |-> Some(Candidates), all_words_covered |-> "true"],
     EmptyObject}

\* a run of the process: what solve_puzzle returned and the solve_time_ms
\* of the response (0 when the result has none)
ClientRuns ==
    {<<r, IF r = EmptyObject THEN 0 ELSE 1>> : r \in ClientResults}

\* the response of the route to body when solve_puzzle returns r
solveRoute(body, key, r) ==
    IF invalidWords(body.words) THEN Failure(400, InvalidInputMessage)
    ELSE IF missingCredential(body, key) THEN Failure(400, MissingKeyMessage)
    ELSE IF scriptKeyError(r, body.exclude_words) THEN catchResponse(Traceback)
    ELSE Success(scriptFilter(r, body.exclude_words))

\* a fetch that rejects (status 0), and the failures of the route
NetworkError == Failure(0, <<"Failed", "to", "fetch">>)

FailureKinds == {"timeout", "network"}

failureResponse(kind) ==
    IF kind = "timeout" THEN catchResponse(TimeoutMessage) ELSE NetworkError

\* excludedPredictions.flatMap(pred => pred.words)
RECURSIVE flatMapWords(_)

\* excludeWords of a request that sends no exclusion
flatMapWords_none(preds) == <<>>

flatMapWords(preds) ==
    IF preds = <<>> THEN <<>>
    ELSE Head(preds).words \o flatMapWords(Tail(preds))

\* predKey that compares the words as they are spelled
predKey_noUpper(p) ==
    SortSeq(p.words,
            LAMBDA a, b : a[1] < b[1] \/ (a[1] = b[1] /\ a[2] = "U" /\ b[2] = "l"))

\* `pred.words.map(w => w.toUpperCase()).sort().join(',')`
predKey(p) ==
    SortSeq([j \in 1..Len(p.words) |-> toUpperCase(p.words[j])],
            LAMBDA a, b : a[1] < b[1])

\* the disabled attributes of the Solve, Retry and Re-solve buttons
solveDisabled(ws, ld) == Len(ws) # WORD_COUNT \/ ld

retryDisabled(ld) == ld

\* resolveDisabled of a button that is never disabled
resolveDisabled_never(ld) == FALSE

resolveDisabled(ld) == ld

Mounted == puzzleData # NoPuzzle

InitClient ==
    /\ ClientInit
    /\ exitCode = <<>>
    /\ handlers = NoHandlers
    /\ pc = "idle"
    /\ apiKey = ""
    /\ req = NoRequest
    /\ clock = 0
    /\ fs = {}
    /\ tmpFile = <<>>
    /\ proc = "none"
    /\ result = EmptyObject
    /\ wrote = FALSE
    /\ stdout = <<>>
    /\ stderr = <<>>
    /\ timer = "none"
    /\ deadline = 0
    /\ promise = NoPromise
    /\ jsonLine = NotParsed
    /\ responses = <<>>
    /\ spawns = 0
    /\ kills = 0
    /\ writes = 0

\* the effect on puzzleId that forgets to clear the exclusions
resetSolverState_keepExcluded ==
    /\ topSolution' = <<>>
    /\ allPredictions' = <<>>
    /\ excludedPredictions' = excludedPredictions
    /\ solveTime' = <<>>
    /\ error' = <<>>
    /\ allWordsCovered' = FALSE
    /\ predictions' = Some(<<>>)

\* the body of the effect on puzzleId when the puzzle changed
resetSolverState ==
    /\ topSolution' = <<>>
    /\ allPredictions' = <<>>
    /\ excludedPredictions' = <<>>
    /\ solveTime' = <<>>
    /\ error' = <<>>
    /\ allWordsCovered' = FALSE
    /\ predictions' = Some(<<>>)

\* Home.handlePuzzleFetched, the render of the Solver with the new puzzleId
\* and its effect on puzzleId.
PuzzleFetched(data) ==
    /\ puzzleData' = data
    /\ prevPuzzleIdRef' = <<data.puzzle_id>>
    /\ IF prevPuzzleIdRef # <<>> /\ prevPuzzleIdRef[1] # data.puzzle_id
       THEN /\ resetSolverState
            /\ lastEvent' = [event |-> "puzzle_changed",
                             hadResults |-> topSolution # <<>>]
       ELSE /\ predictions' = Absent
            /\ UNCHANGED <<topSolution, allPredictions, excludedPredictions,
                           solveTime, error, allWordsCovered, lastEvent>>
    /\ UNCHANGED <<serverVars, loading, useLLM, inflight>>

\* the switch `Use GPT-4`
ToggleLLM ==
    /\ Mounted
    /\ useLLM' = ~useLLM
    /\ UNCHANGED <<serverVars, puzzleData, predictions, prevPuzzleIdRef,
                   topSolution, allPredictions, excludedPredictions, loading,
                   solveTime, error, allWordsCovered, inflight, lastEvent>>



\* the guard of a solvePuzzle that accepts any word list
wordsInvalid_never(ws) == FALSE

\* `!words || words.length !== 16`
wordsInvalid(ws) == Len(ws) # WORD_COUNT

\* solvePuzzle that forgets the exclusions once they are sent
solvePuzzleStart_dropsExclusions(button) ==
    /\ Len(inflight) < MaxInflight
    /\ IF wordsInvalid(puzzleData.words)
       THEN /\ error' = <<"Invalid", "words:", "Expected", "16", "words">>
            /\ lastEvent' = [event |-> "solve_refused", hadResults |-> FALSE]
            /\ UNCHANGED <<loading, inflight>>
       ELSE /\ loading' = TRUE
            /\ error' = <<>>
            /\ inflight' = Append(inflight,
                 [body |-> [parsable |-> TRUE,
                            words |-> [kind |-> "array", val |-> puzzleData.words],
                            use_llm |-> useLLM,
                            exclude_words |-> flatMapWords(excludedPredictions)],
                  puzzle_id |-> puzzleData.puzzle_id])
            /\ lastEvent' = [event |-> button, hadResults |-> FALSE]
    /\ excludedPredictions' = <<>>
    /\ UNCHANGED <<serverVars, puzzleData, predictions, prevPuzzleIdRef,
                   topSolution, allPredictions, useLLM, solveTime,
                   allWordsCovered>>

\* solvePuzzle up to `await fetch`, called by the handler of button
solvePuzzleStart(button) ==
    /\ Len(inflight) < MaxInflight
    /\ IF wordsInvalid(puzzleData.words)
       THEN /\ error' = <<"Invalid", "words:", "Expected", "16", "words">>
            /\ lastEvent' = [event |-> "solve_refused", hadResults |-> FALSE]
            /\ UNCHANGED <<loading, inflight>>
       ELSE /\ loading' = TRUE
            /\ error' = <<>>
            /\ inflight' = Append(inflight,
                 [body |-> [parsable |-> TRUE,
                            words |-> [kind |-> "array", val |-> puzzleData.words],
                            use_llm |-> useLLM,
                            exclude_words |-> flatMapWords(excludedPredictions)],
                  puzzle_id |-> puzzleData.puzzle_id])
            /\ lastEvent' = [event |-> button, hadResults |-> FALSE]
    /\ UNCHANGED <<serverVars, puzzleData, predictions, prevPuzzleIdRef,
                   topSolution, allPredictions, excludedPredictions, useLLM,
                   solveTime, allWordsCovered>>

\* the button `Solve Puzzle`
ClickSolve ==
    /\ Mounted
    /\ ~solveDisabled(puzzleData.words, loading)
    /\ solvePuzzleStart("solve")

\* the button `Retry` of the error alert
ClickRetry ==
    /\ Mounted
    /\ error # <<>>
    /\ ~retryDisabled(loading)
    /\ solvePuzzleStart("retry")

\* the button `Re-solve Without Excluded`; the panel that holds it and
\* `Clear Exclusions` can be opened whenever there are exclusions
ClickResolve ==
    /\ Mounted
    /\ excludedPredictions # <<>>
    /\ ~resolveDisabled(loading)
    /\ solvePuzzleStart("resolve")


\* excludePrediction that also clears the covered flag
ClickExclude_clearsFlag(i) ==
    /\ Mounted
    /\ i \in 1..Len(topSolution)
    /\ Len(excludedPredictions) < MaxExcluded
    /\ LET prediction == topSolution[i]
           keeps(pred) == predKey(pred) # predKey(prediction)
       IN  /\ excludedPredictions' = Append(excludedPredictions, prediction)
           /\ topSolution' = SelectSeq(topSolution, keeps)
           /\ allPredictions' = SelectSeq(allPredictions, keeps)
           /\ predictions' = Some(SelectSeq(topSolution, keeps))
    /\ allWordsCovered' = FALSE
    /\ lastEvent' = [event |-> "excluded", hadResults |-> TRUE]
    /\ UNCHANGED <<serverVars, puzzleData, prevPuzzleIdRef, loading, useLLM,
                   solveTime, error, inflight>>

\* excludePrediction that leaves the top solution as it is
ClickExclude_keepsTop(i) ==
    /\ Mounted
    /\ i \in 1..Len(topSolution)
    /\ Len(excludedPredictions) < MaxExcluded
    /\ LET prediction == topSolution[i]
           keeps(pred) == predKey(pred) # predKey(prediction)
       IN  /\ excludedPredictions' = Append(excludedPredictions, prediction)
           /\ topSolution' = topSolution
           /\ allPredictions' = SelectSeq(allPredictions, keeps)
           /\ predictions' = Some(topSolution)
    /\ lastEvent' = [event |-> "excluded", hadResults |-> TRUE]
    /\ UNCHANGED <<serverVars, puzzleData, prevPuzzleIdRef, loading, useLLM,
                   solveTime, error, allWordsCovered, inflight>>

\* the button `Exclude` of the i-th group of the top solution
ClickExclude(i) ==
    /\ Mounted
    /\ i \in 1..Len(topSolution)
    /\ Len(excludedPredictions) < MaxExcluded
    /\ LET prediction == topSolution[i]
           keeps(pred) == predKey(pred) # predKey(prediction)
       IN  /\ excludedPredictions' = Append(excludedPredictions, prediction)
           /\ topSolution' = SelectSeq(topSolution, keeps)
           /\ allPredictions' = SelectSeq(allPredictions, keeps)
           /\ predictions' = Some(SelectSeq(topSolution, keeps))
    /\ lastEvent' = [event |-> "excluded", hadResults |-> TRUE]
    /\ UNCHANGED <<serverVars, puzzleData, prevPuzzleIdRef, loading, useLLM,
                   solveTime, error, allWordsCovered, inflight>>


\* resetExclusions that also drops the displayed results
ClickClearExclusions_clearsResults ==
    /\ Mounted
    /\ excludedPredictions # <<>>
    /\ excludedPredictions' = <<>>
    /\ topSolution' = <<>>
    /\ allPredictions' = <<>>
    /\ UNCHANGED <<serverVars, puzzleData, predictions, prevPuzzleIdRef,
                   loading, useLLM, solveTime, error, allWordsCovered,
                   inflight, lastEvent>>

\* the button `Clear Exclusions`
ClickClearExclusions ==
    /\ Mounted
    /\ excludedPredictions # <<>>
    /\ excludedPredictions' = <<>>
    /\ UNCHANGED <<serverVars, puzzleData, predictions, prevPuzzleIdRef,
                   topSolution, allPredictions, loading, useLLM, solveTime,
                   error, allWordsCovered, inflight, lastEvent>>

\* clearResults that keeps the lists of the earlier solve
clearResults_keepLists ==
    /\ UNCHANGED <<topSolution, allPredictions>>
    /\ allWordsCovered' = FALSE
    /\ solveTime' = <<>>
    /\ predictions' = Some(<<>>)

\* the catch of solvePuzzle after setError: the results are cleared and the
\* parent is notified
clearResults ==
    /\ topSolution' = <<>>
    /\ allPredictions' = <<>>
    /\ allWordsCovered' = FALSE
    /\ solveTime' = <<>>
    /\ predictions' = Some(<<>>)

\* the catch of solvePuzzle that leaves the flag and the solve time
solveCatch_keepFlag(msg) ==
    /\ error' = msg
    /\ topSolution' = <<>>
    /\ allPredictions' = <<>>
    /\ predictions' = Some(<<>>)
    /\ UNCHANGED <<allWordsCovered, solveTime>>

\* the catch of solvePuzzle
solveCatch(msg) ==
    /\ error' = msg
    /\ clearResults


\* showResults that adds the new lists to those of the earlier round
showResults_append(data) ==
    /\ topSolution' = topSolution \o clientTopSolution(data)
    /\ allPredictions' = allPredictions \o clientAllPredictions(data)
    /\ allWordsCovered' = clientAllWordsCovered(data)
    /\ predictions' = Some(topSolution \o clientTopSolution(data))

\* the success path of solvePuzzle: the lists of the response replace those
\* of the session and the parent is given the top solution
showResults(data) ==
    /\ topSolution' = clientTopSolution(data)
    /\ allPredictions' = clientAllPredictions(data)
    /\ allWordsCovered' = clientAllWordsCovered(data)
    /\ predictions' = Some(clientTopSolution(data))

\* solvePuzzle after `await fetch` without the finally block: a failure of
\* the route or of the network leaves loading set
FetchReturns_noFinally(r, kind, ms) ==
    /\ inflight # <<>>
    /\ LET rq   == Head(inflight)
           resp == IF kind = "none" THEN solveRoute(rq.body, apiKey, r)
                   ELSE failureResponse(kind)
           data == AsData(resp)
       IN  /\ IF resp.status \notin 200..299 \/ ~resp.success
              THEN /\ solveCatch(IF resp.error # <<>> THEN resp.error
                                 ELSE <<"Failed", "to", "solve", "puzzle">>)
                   /\ lastEvent' = [event |-> "solve_failed",
                                    hadResults |-> topSolution # <<>>]
              ELSE /\ showResults(data)
                   /\ solveTime' = IF ms # 0 THEN <<ms>> ELSE <<>>
                   /\ lastEvent' = [event |-> "solve_succeeded",
                                    hadResults |-> topSolution # <<>>]
                   /\ UNCHANGED error
    /\ loading' = (kind # "none")
    /\ inflight' = Tail(inflight)
    /\ UNCHANGED <<serverVars, puzzleData, prevPuzzleIdRef,
                   excludedPredictions, useLLM>>

\* solvePuzzle after `await fetch`: the oldest request returns.  r is what
\* solve_puzzle returned, kind the failure of the route or of the network
\* ("none" when the process ran to its end), ms the solve_time_ms of the
\* response.
FetchReturns(r, kind, ms) ==
    /\ inflight # <<>>
    /\ LET rq   == Head(inflight)
           resp == IF kind = "none" THEN solveRoute(rq.body, apiKey, r)
                   ELSE failureResponse(kind)
           data == AsData(resp)
       IN  /\ IF resp.status \notin 200..299 \/ ~resp.success
              THEN /\ solveCatch(IF resp.error # <<>> THEN resp.error
                                 ELSE <<"Failed", "to", "solve", "puzzle">>)
                   /\ lastEvent' = [event |-> "solve_failed",
                                    hadResults |-> topSolution # <<>>]
              ELSE /\ showResults(data)
                   /\ solveTime' = IF ms # 0 THEN <<ms>> ELSE <<>>
                   /\ lastEvent' = [event |-> "solve_succeeded",
                                    hadResults |-> topSolution # <<>>]
                   /\ UNCHANGED error
    /\ loading' = FALSE
    /\ inflight' = Tail(inflight)
    /\ UNCHANGED <<serverVars, puzzleData, prevPuzzleIdRef,
                   excludedPredictions, useLLM>>

NextClient ==
    \/ \E data \in PuzzleDatas : PuzzleFetched(data)
    \/ ToggleLLM
    \/ ClickSolve
    \/ ClickRetry
    \/ ClickResolve
    \/ \E i \in 1..Len(topSolution) : ClickExclude(i)
    \/ ClickClearExclusions
    \/ \E run \in ClientRuns : FetchReturns(run[1], "none", run[2])
    \/ \E kind \in FailureKinds : FetchReturns(EmptyObject, kind, 0)

SpecClient == InitClient /\ [][NextClient]_vars

(***************************************************************************)
(* The fetch-puzzle route (GET and POST): the producer is run with exec,   *)
(* its output is parsed and three fields of it are returned.               *)
(***************************************************************************)
\* what fetch_puzzle may return: an object with or without words, puzzle_id
\* and date, or None
JsonNull == [null |-> TRUE]

FetchObjects ==
    [words : {Absent} \cup {Some(WordArray(n)) :
                  n \in {0, WORD_COUNT - 1, WORD_COUNT, WORD_COUNT + 1}},
     puzzle_id : {Absent, Some(1)},
     date : {Absent, Some(<<"2024-06-01">>)}]

FetchPayloads == FetchObjects \cup {JsonNull}

\* the primary output of the producer; "json" is the dump of the payload
FetchOutputs ==
    {<<>>, <<"{", "json", "}", "nl">>, <<"x", "nl", "{", "json", "}", "nl">>,
     <<"{", "}", "nl">>, <<"null", "nl">>}

FetchWarning == <<"DeprecationWarning">>

ExecErrorMessage == <<"Command", "failed:", "python3">>

TypeErrorMessage == <<"Cannot", "read", "properties", "of", "null">>

\* JSON.parse(stdout.trim()) for the output of the producer
FetchParse(out, res) ==
    LET t == trim(out)
    IN  IF t = <<"{", "json", "}">> /\ res # JsonNull
        THEN [ok |-> TRUE, val |-> res]
        ELSE IF t = <<"null">> \/ (t = <<"{", "json", "}">> /\ res = JsonNull)
             THEN [ok |-> TRUE, val |-> JsonNull]
             ELSE IF t = <<"{", "}">>
                  THEN [ok |-> TRUE,
                        val |-> [words |-> Absent, puzzle_id |-> Absent,
                                 date |-> Absent]]
                  ELSE [ok |-> FALSE, val |-> JsonNull]

FetchFailure(msg) == [status |-> 500, success |-> FALSE, error |-> msg]

FetchSuccess(p) ==
    [status |-> 200, success |-> TRUE,
     data |-> [words |-> p.words, puzzle_id |-> p.puzzle_id, date |-> p.date]]

\* the handler after the producer ended with exit status code, primary
\* output out and diagnostic output err
fetchRoute(code, out, err, res) ==
    IF code # 0 THEN FetchFailure(ExecErrorMessage)
    ELSE IF err # <<>> /\ out = <<>> THEN FetchFailure(err)
    ELSE LET parsed == FetchParse(out, res)
         IN  IF ~parsed.ok THEN FetchFailure(SyntaxErrorMessage)
             ELSE IF parsed.val = JsonNull THEN FetchFailure(TypeErrorMessage)
             ELSE FetchSuccess(parsed.val)

InitFetch ==
    /\ ClientInit
    /\ exitCode \in {<<0>>, <<1>>}
    /\ handlers = NoHandlers
    /\ pc = "idle"
    /\ apiKey = ""
    /\ req = NoRequest
    /\ clock = 0
    /\ fs = {}
    /\ tmpFile = <<>>
    /\ proc = "none"
    /\ result \in FetchPayloads
    /\ wrote = FALSE
    /\ stdout \in FetchOutputs
    /\ stderr \in {<<>>, FetchWarning}
    /\ timer = "none"
    /\ deadline = 0
    /\ promise = NoPromise
    /\ jsonLine = NotParsed
    /\ responses = <<>>
    /\ spawns = 0
    /\ kills = 0
    /\ writes = 0

\* GET /api/fetch-puzzle
FetchGET ==
    /\ pc = "idle"
    /\ responses' = <<fetchRoute(exitCode[1], stdout, stderr, result)>>
    /\ pc' = "fetched_get"
    /\ UNCHANGED <<serverVars_but_pc_responses, clientVars>>

\* POST /api/fetch-puzzle
FetchPOST ==
    /\ pc = "idle"
    /\ responses' = <<fetchRoute(exitCode[1], stdout, stderr, result)>>
    /\ pc' = "fetched_post"
    /\ UNCHANGED <<serverVars_but_pc_responses, clientVars>>

NextFetch == FetchGET \/ FetchPOST

SpecFetch == InitFetch /\ [][NextFetch]_vars

(***************************************************************************)
(* Two solve requests handled by the same server.  Each handler runs the   *)
(* block from the temp file's name to the spawn without awaiting, so the   *)
(* block is one step; the two handlers interleave at the awaits and the    *)
(* two python processes run on their own.  handlers[i] is the position of  *)
(* request i, the temp file it named and the status it answered with.      *)
(***************************************************************************)
serverVars_but_clock_fs_handlers ==
    <<pc, apiKey, req, tmpFile, proc, result, wrote, stdout, stderr, timer,
      deadline, promise, jsonLine, responses, spawns, kills, writes, exitCode>>

InitPair == Init

\* lines 349-436: name the file after Date.now(), write the script, spawn
PairStart(i) ==
    /\ handlers[i].pc = "idle"
    /\ fs' = fs \cup {clock}
    /\ handlers' = [handlers EXCEPT ![i] =
                       [pc |-> "spawned", tmpFile |-> <<clock>>, outcome |-> 0]]
    /\ UNCHANGED <<clock, serverVars_but_clock_fs_handlers, clientVars>>

\* the interpreter opens the script it was given: the file is there or not
PairOpen(i) ==
    /\ handlers[i].pc = "spawned"
    /\ handlers' = [handlers EXCEPT ![i].pc =
                       IF Range(handlers[i].tmpFile) \subseteq fs
                       THEN "running" ELSE "nofile"]
    /\ UNCHANGED <<clock, fs, serverVars_but_clock_fs_handlers, clientVars>>

\* the 'close' event of request i and the rest of its handler: a process
\* that could not open its script, or that failed, exits with a non-zero
\* code and no output, the promise rejects and the unlink is skipped
PairClose(i) ==
    /\ handlers[i].pc \in {"running", "nofile"}
    /\ \E ok \in BOOLEAN :
         IF handlers[i].pc = "running" /\ ok
         THEN /\ fs' = fs \ Range(handlers[i].tmpFile)
              /\ handlers' = [handlers EXCEPT ![i].pc = "done",
                                              ![i].outcome = 200]
         ELSE /\ fs' = fs
              /\ handlers' = [handlers EXCEPT ![i].pc = "done",
                                              ![i].outcome = 500]
    /\ UNCHANGED <<clock, serverVars_but_clock_fs_handlers, clientVars>>

\* a millisecond passes
PairTick ==
    /\ clock < MaxClock
    /\ clock' = clock + 1
    /\ UNCHANGED <<fs, handlers, serverVars_but_clock_fs_handlers, clientVars>>

NextPair ==
    \/ \E i \in 1..2 : PairStart(i)
    \/ \E i \in 1..2 : PairOpen(i)
    \/ \E i \in 1..2 : PairClose(i)
    \/ PairTick

SpecPair == InitPair /\ [][NextPair]_vars

(***************************************************************************)
(* Properties.                                                             *)
(***************************************************************************)
\* the request has been handled up to its first response or await
Received == pc # "idle"

\* a line counts as structured when its trimmed content starts with { or [
Structured(l) == startsWith(trim(l), "{") \/ startsWith(trim(l), "[")

StructuredLines(out) ==
    {i \in 1..Len(split(out)) : Structured(split(out)[i])}

\* the last structured line of a text that has one
LastStructuredLine(out) ==
    split(out)[CHOOSE i \in StructuredLines(out) :
                   \A j \in StructuredLines(out) : j <= i]

\* some structured line is followed by a later non-empty line that is not
\* structured
HasTrailingText(out) ==
    \E i \in StructuredLines(out) :
        \E j \in (i + 1)..Len(split(out)) :
            /\ trim(split(out)[j]) # <<>>
            /\ ~Structured(split(out)[j])

\* the groups of top are 4 and their words, case-folded, are the words ws,
\* each once
Covers(top, ws) ==
    LET places == {<<i, j>> \in (1..Len(top)) \X (1..4) : j <= Len(top[i].words)}
    IN  /\ Len(top) = 4
        /\ Cardinality(places) = Len(ws)
        /\ \A k \in 1..Len(ws) :
               Cardinality({pl \in places :
                   toUpperCase(top[pl[1]].words[pl[2]]) = toUpperCase(ws[k])}) = 1

\* C1: a request whose words field is absent, is not an array or is an array
\* of a length other than 16 gets the single response 400 with success =
\* false; no temp file is written for it and no process is spawned.
C1_MalformedRejected ==
    (Received /\ req.parsable
        /\ (req.words.kind # "array" \/ Len(req.words.val) # 16))
    => /\ Len(responses) = 1
       /\ responses[1].status = 400
       /\ ~responses[1].success
       /\ writes = 0 /\ fs = {} /\ tmpFile = <<>>
       /\ spawns = 0 /\ proc = "none"

C1_Witness ==
    /\ pc = "responded"
    /\ req.parsable /\ req.words.kind = "array" /\ Len(req.words.val) = 17
    /\ Len(responses) = 1 /\ responses[1].status = 400

\* C2: a request with use_llm = true while no credential is configured gets
\* the single response 400 with success = false, with no temp file written
\* and no process spawned; with use_llm = false a request with 16 words is
\* never rejected for the missing credential: the handler goes on to write
\* the temp file.
C2_MissingCredentialRejected ==
    /\ (Received /\ req.parsable /\ req.use_llm /\ apiKey = "")
       => /\ Len(responses) = 1
          /\ responses[1].status = 400
          /\ ~responses[1].success
          /\ writes = 0 /\ fs = {} /\ spawns = 0 /\ proc = "none"
    /\ (Received /\ req.parsable /\ ~req.use_llm
           /\ req.words.kind = "array" /\ Len(req.words.val) = 16)
       => /\ writes = 1
          /\ \A i \in 1..Len(responses) : responses[i].error # MissingKeyMessage

C2_Witness ==
    /\ pc = "responded"
    /\ req.parsable /\ req.use_llm /\ apiKey = ""
    /\ req.words.kind = "array" /\ Len(req.words.val) = 16
    /\ Len(responses) = 1 /\ responses[1].error = MissingKeyMessage

\* C3: a running process always has its timer armed; once the timer has
\* fired, one kill has been issued, the process is killed or closed, and the
\* request has (as soon as the code after the await has run) exactly one
\* response, with status 504, also after the close event of the killed process.
C3_TimeoutOnce ==
    /\ (proc = "running" => timer = "armed")
    /\ (timer = "fired"
        => /\ kills = 1
           /\ proc \in {"killed", "closed"}
           /\ Len(responses) <= 1
           /\ (~ContinuationPending
               => Len(responses) = 1 /\ responses[1].status = 504))

C3_Witness ==
    /\ timer = "fired" /\ proc = "closed" /\ kills = 1
    /\ Len(responses) = 1 /\ responses[1].status = 504

\* C4: when the response is returned for a request that created a temp file,
\* the file no longer exists.
C4_TempFileDeleted ==
    (pc = "responded" /\ tmpFile # <<>> /\ spawns = 1) => Range(tmpFile) \cap fs = {}

\* C5: a response has status 504 only if the timer expired.
C5_504OnlyOnExpiry ==
    \A i \in 1..Len(responses) : responses[i].status = 504 => timer = "fired"

\* C6: a request that passed validation and was not timed out is answered
\* 500 when it fails, never 400, and 200 only when a payload line parsed.
C6_FailureIs500 ==
    (pc = "responded" /\ writes = 1 /\ timer # "fired")
    => /\ responses[1].status \in {200, 500}
       /\ (responses[1].status = 200
           => /\ promise.state = "resolved"
              /\ StructuredLines(promise.stdout) # {})

\* C7: in a 200 response, all_words_covered = true implies that top_solution
\* has 4 groups whose case-folded words are the 16 request words, each once.
C7_CoveredImpliesCovering ==
    \A i \in 1..Len(responses) :
        (responses[i].status = 200 /\ responses[i].all_words_covered = "true")
        => Covers(responses[i].top_solution, req.words.val)

\* C8: in a 200 response, top_solution has at most 4 groups.
C8_TopAtMostFour ==
    \A i \in 1..Len(responses) :
        responses[i].status = 200 => Len(responses[i].top_solution) <= 4

\* C9 (as stated): when the primary output has a structured line followed by
\* a later non-empty line that is not structured, the request is not answered
\* with success.
C9_TrailingTextFails ==
    (pc = "responded" /\ promise.state = "resolved"
        /\ HasTrailingText(promise.stdout))
    => \A i \in 1..Len(responses) : ~responses[i].success

\* C9 (amended): trailing text after the payload is ignored: when the primary
\* output has a structured line followed by a later non-empty line that is
\* not structured, the last structured line is handed to the parser and the
\* request is answered with success exactly when that line parses.
C9_TrailingTextIgnored ==
    (pc = "responded" /\ promise.state = "resolved"
        /\ HasTrailingText(promise.stdout))
    => /\ jsonLine = trim(LastStructuredLine(promise.stdout))
       /\ Len(responses) = 1
       /\ (responses[1].success
           <=> JSONParse(LastStructuredLine(promise.stdout), result).ok)

C9_Witness ==
    /\ pc = "responded" /\ promise.state = "resolved"
    /\ HasTrailingText(promise.stdout)
    /\ ~Structured(split(trim(promise.stdout))[Len(split(trim(promise.stdout)))])
    /\ Len(responses) = 1 /\ responses[1].status = 200

\* C10: for a text with at least one structured line, the text handed to the
\* JSON parser is the last structured line, trimmed.
C10_LastStructuredLine ==
    (pc = "extracted" /\ StructuredLines(stdout) # {})
    => jsonLine = trim(LastStructuredLine(stdout))

C10_Witness ==
    /\ pc = "extracted"
    /\ stdout = <<"{", "nl", "sp", "[", "sp", "nl">>
    /\ jsonLine = <<"[">>

\* C15: for a process that closed by itself, the task is declared failed
\* (its output never reaches extraction) if and only if the primary output is
\* empty and the diagnostic output is non-empty or the exit code is not 0; a
\* failed task is not answered with success.
C15_TaskFailure ==
    (pc = "responded" /\ exitCode # <<>> /\ exitCode[1] \in {0, 1}
        /\ timer # "fired")
    => /\ ((jsonLine = NotParsed)
           <=> (stdout = <<>> /\ (stderr # <<>> \/ exitCode[1] # 0)))
       /\ (jsonLine = NotParsed => ~responses[1].success)

C15_Witness ==
    /\ pc = "responded" /\ exitCode = <<1>>
    /\ stdout # <<>> /\ stderr # <<>>
    /\ jsonLine # NotParsed
    /\ responses[1].status = 200

\* C16: in a 200 response to a request with non-empty exclude_words, no
\* group of top_solution or all_predictions has a word that equals a word of
\* exclude_words when case is ignored.
C16_NoExcludedWords ==
    \A i \in 1..Len(responses) :
        (responses[i].status = 200 /\ req.exclude_words # <<>>)
        => \A p \in Range(responses[i].top_solution)
                    \cup Range(responses[i].all_predictions) :
               UpperSet(p.words) \cap UpperSet(req.exclude_words) = {}

\* the first n elements of a list, for n no more than its length
FirstN(l, n) == [i \in 1..(IF Len(l) < n THEN Len(l) ELSE n) |-> l[i]]

\* the top solution and the candidates the claim describes for a payload
ExpectedTop(p) ==
    CASE p.top_solution.present -> p.top_solution.val
      [] ~p.top_solution.present /\ p.predictions.present ->
             FirstN(p.predictions.val, 4)
      [] OTHER -> <<>>

ExpectedAll(p) ==
    CASE p.all_predictions.present -> p.all_predictions.val
      [] ~p.all_predictions.present /\ p.predictions.present ->
             p.predictions.val
      [] OTHER -> <<>>

\* C17: the server and the client shape a payload the same way: an explicit
\* top_solution is used unchanged, otherwise the first (at most 4) entries of
\* the flat list; an explicit all_predictions is used, otherwise the whole
\* flat list; with no list both are empty.  The client, applied to the
\* response of the server, keeps the lists of the response.
C17_Shaping ==
    /\ pc \in {"shaped", "both"}
       => /\ responses[1].top_solution = ExpectedTop(result)
          /\ responses[1].all_predictions = ExpectedAll(result)
    /\ pc \in {"client_shaped", "both"}
       => /\ topSolution = ExpectedTop(result)
          /\ allPredictions = ExpectedAll(result)

C17_Witness ==
    /\ pc = "both"
    /\ ~result.top_solution.present /\ ~result.all_predictions.present
    /\ result.predictions.present /\ Len(result.predictions.val) = 5
    /\ Len(topSolution) = 4 /\ Len(allPredictions) = 5

\* C18: the all_words_covered of a 200 response does not depend on the
\* value of the all_words_covered field of the payload.
C18_FlagIgnored ==
    pc \in {"shaped", "both"}
    => \A f \in {"true", "false", "undefined"} :
           Success([result EXCEPT !.all_words_covered = f]).all_words_covered
               = responses[1].all_words_covered

\* C14: in any sequence of user actions on one Solver session at most one
\* solve request is in flight: a solve, retry or re-solve issued while a
\* request has not completed starts no second request.
C14_OneInFlight == Len(inflight) <= 1

\* a request is in flight while the Re-solve button is shown
C14_Witness ==
    /\ Len(inflight) = 1
    /\ loading
    /\ excludedPredictions # <<>>
    /\ topSolution # <<>>

\* the number of words of p that are w once upper-cased
Count(p, w) == Cardinality({j \in 1..Len(p.words) : toUpperCase(p.words[j]) = w})

\* p and g hold the same upper-cased words, whatever their order
SameWords(p, g) ==
    /\ Len(p.words) = Len(g.words)
    /\ \A w \in UpperSet(p.words) \cup UpperSet(g.words) : Count(p, w) = Count(g, w)

\* the predictions of list whose words are not those of g, in their order
Without(list, g) == SelectSeq(list, LAMBDA p : ~SameWords(p, g))

\* a step that excludes one group
ExcludeStep == Len(excludedPredictions') = Len(excludedPredictions) + 1

\* C12: exclude(g) removes from topSolution and from allPredictions exactly
\* the predictions whose upper-cased words, compared without regard to
\* order, are those of g, and leaves every other prediction in place and in
\* its original relative order.
C12_ExcludeExact ==
    [][ExcludeStep =>
          LET g == excludedPredictions'[Len(excludedPredictions')]
          IN  /\ topSolution' = Without(topSolution, g)
              /\ allPredictions' = Without(allPredictions, g)]_vars

\* the first group was excluded: its respelling left the candidates, the
\* overlapping group stayed
C12_Witness ==
    /\ lastEvent.event = "excluded"
    /\ excludedPredictions # <<>>
    /\ excludedPredictions[Len(excludedPredictions)] = GroupK(1)
    /\ GroupK(TOP_SIZE + 1) \in Range(allPredictions)
    /\ GroupK(2) \in Range(topSolution)
    /\ Respelled(GroupK(1)) \notin Range(allPredictions)
    /\ GroupK(1) \notin Range(topSolution)

\* a step that gives the mounted Solver a different puzzle identity
PuzzleChangeStep ==
    /\ Mounted
    /\ puzzleData'.puzzle_id # puzzleData.puzzle_id

\* C13: whenever the puzzle identity given to the Solver changes to a
\* different id, in whatever state the session is, the exclusions, the top
\* solution, the candidates, allWordsCovered, the solve time and the error
\* are reset and the parent is notified with an empty prediction list.
C13_PuzzleChangeResets ==
    [][PuzzleChangeStep =>
          /\ excludedPredictions' = <<>>
          /\ topSolution' = <<>>
          /\ allPredictions' = <<>>
          /\ allWordsCovered' = FALSE
          /\ solveTime' = <<>>
          /\ error' = <<>>
          /\ predictions' = Some(<<>>)]_vars

\* the puzzle changed while results were shown and a solve was in flight
C13_Witness ==
    /\ lastEvent = [event |-> "puzzle_changed", hadResults |-> TRUE]
    /\ inflight # <<>>
    /\ inflight[1].puzzle_id # puzzleData.puzzle_id
    /\ loading
    /\ topSolution = <<>>
    /\ excludedPredictions = <<>>
    /\ predictions = Some(<<>>)

\* a step in which a solve, retry or re-solve completes with a failure
FailStep ==
    /\ inflight # <<>>
    /\ inflight' = Tail(inflight)
    /\ lastEvent'.event = "solve_failed"

\* C19: when a solve or re-solve fails the session ends with a non-empty
\* error, topSolution and allPredictions empty, allWordsCovered false, the
\* solve time null, loading false, and the parent notified with an empty
\* list.
C19_FailureClears ==
    [][FailStep =>
          /\ error' # <<>>
          /\ topSolution' = <<>>
          /\ allPredictions' = <<>>
          /\ allWordsCovered' = FALSE
          /\ solveTime' = <<>>
          /\ loading' = FALSE
          /\ predictions' = Some(<<>>)]_vars

\* a solve failed and the session shows the error only
C19_Witness ==
    /\ lastEvent = [event |-> "solve_failed", hadResults |-> FALSE]
    /\ inflight = <<>>
    /\ error = failureResponse("timeout").error
    /\ predictions = Some(<<>>)
    /\ topSolution = <<>>
    /\ ~loading

\* C20 as stated: when a re-solve fails while results of an earlier solve
\* are displayed, topSolution and allPredictions keep their values.
C20_FailureKeepsResults ==
    [][FailStep /\ topSolution # <<>> =>
          UNCHANGED <<topSolution, allPredictions>>]_vars

\* C20: when a re-solve fails while results of an earlier solve are
\* displayed, topSolution and allPredictions are emptied, as they are when
\* an initial solve fails.
C20_FailureDropsResults ==
    [][FailStep /\ topSolution # <<>> =>
          topSolution' = <<>> /\ allPredictions' = <<>>]_vars

\* a re-solve failed while results were displayed, with exclusions kept
C20_Witness ==
    /\ lastEvent = [event |-> "solve_failed", hadResults |-> TRUE]
    /\ excludedPredictions # <<>>
    /\ topSolution = <<>>
    /\ allPredictions = <<>>
    /\ error # <<>>

\* a step in which a solve, retry or re-solve completes successfully
SuccessStep ==
    /\ inflight # <<>>
    /\ inflight' = Tail(inflight)
    /\ lastEvent'.event = "solve_succeeded"

\* the groups that were excluded when the request of body was started
ExcludedGroups(body) ==
    {[words |-> SubSeq(body.exclude_words, 4 * k - 3, 4 * k)] :
        k \in 1..(Len(body.exclude_words) \div 4)}

\* C11: after exclude(g) followed by a re-solve that completes
\* successfully, no group with the case-folded word-set of g appears in
\* topSolution or allPredictions, whatever the shape of the engine payload.
C11_ExcludedStayOut ==
    [][SuccessStep =>
          \A g \in ExcludedGroups(Head(inflight).body) :
             \A p \in Range(topSolution') \cup Range(allPredictions') :
                ~SameWords(p, g)]_vars

\* C22: exclude(g) is a local, synchronous transition: it adds g to the
\* exclusions, sends no solve request, leaves loading, error, solve time,
\* allWordsCovered and the LLM toggle unchanged, and notifies the parent
\* with the updated topSolution.
C22_ExcludeIsLocal ==
    [][ExcludeStep =>
          /\ \E g \in Range(topSolution) :
                excludedPredictions' = Append(excludedPredictions, g)
          /\ UNCHANGED <<inflight, loading, error, solveTime, allWordsCovered,
                         useLLM>>
          /\ predictions' = Some(topSolution')]_vars

\* a group was excluded while a covering solution was shown and no solve
\* was running: the flag and the solve time are those of the solve
C22_Witness ==
    /\ lastEvent.event = "excluded"
    /\ excludedPredictions # <<>>
    /\ inflight = <<>>
    /\ ~loading
    /\ allWordsCovered
    /\ solveTime # <<>>
    /\ Len(topSolution) = TOP_SIZE - 1
    /\ predictions = Some(topSolution)

\* a step that empties the exclusions while the puzzle stays the same
ClearStep ==
    /\ excludedPredictions # <<>>
    /\ excludedPredictions' = <<>>
    /\ puzzleData'.puzzle_id = puzzleData.puzzle_id

\* C23: resetExclusions() empties the exclusions and leaves topSolution,
\* allPredictions, allWordsCovered, error, solve time and loading unchanged,
\* and sends no request; groups removed by earlier exclusions are not
\* restored.
C23_ClearKeepsResults ==
    [][ClearStep =>
          UNCHANGED <<topSolution, allPredictions, allWordsCovered, error,
                      solveTime, loading, inflight>>]_vars

\* the exclusions were cleared after the first group was excluded: the
\* group is still missing from the lists
C23_Witness ==
    /\ lastEvent.event = "excluded"
    /\ excludedPredictions = <<>>
    /\ GroupK(2) \in Range(topSolution)
    /\ GroupK(1) \notin Range(topSolution)
    /\ GroupK(1) \notin Range(allPredictions)
    /\ GroupK(TOP_SIZE + 1) \in Range(allPredictions)

\* a step in which a solve, retry or re-solve completes
CompletionStep ==
    /\ inflight # <<>>
    /\ inflight' = Tail(inflight)

\* s is an initial part of t
IsPrefix(s, t) == Len(s) <= Len(t) /\ SubSeq(t, 1, Len(s)) = s

StartStep == Len(inflight') = Len(inflight) + 1

C29_FlagMeansCovering ==
    allWordsCovered => Covers(topSolution, puzzleData.words)

\* the 200 responses the route can give to the request of body
SuccessResponses(body) ==
    {resp \in {solveRoute(body, apiKey, run[1]) : run \in ClientRuns} :
        resp.success}

\* C21: after any successful solve, topSolution and allPredictions are
\* exactly the lists of the response; no prediction of an earlier round
\* remains unless the response contains it.
C21_ResultsReplaced ==
    [][SuccessStep =>
          \E resp \in SuccessResponses(Head(inflight).body) :
             /\ topSolution' = resp.top_solution
             /\ allPredictions' = resp.all_predictions]_vars

\* a re-solve without the first group succeeded while results were shown:
\* the lists are the three groups of the response
C21_Witness ==
    /\ lastEvent = [event |-> "solve_succeeded", hadResults |-> TRUE]
    /\ excludedPredictions = <<GroupK(1)>>
    /\ topSolution = <<GroupK(2), GroupK(3), GroupK(4)>>
    /\ allPredictions = <<GroupK(2), GroupK(3), GroupK(4)>>

\* the word list of the session is not a list of 16 words and stays as is
BadWords == Len(puzzleData.words) # WORD_COUNT /\ puzzleData' = puzzleData

\* a step in which solvePuzzle is refused: the error changes and no
\* request starts or completes
RefusedStep == BadWords /\ error' # error /\ inflight' = inflight

\* C30: solve, retry and re-solve invoked while the word list does not have
\* exactly 16 entries send no request and never enter the Solving state;
\* the session only records an error, and topSolution, allPredictions and
\* the exclusions are left unchanged.
C30_BadWordsRefused ==
    [][/\ BadWords => Len(inflight') <= Len(inflight) /\ (loading' => loading)
       /\ RefusedStep =>
             /\ error' # <<>>
             /\ ~loading'
             /\ UNCHANGED <<topSolution, allPredictions, excludedPredictions,
                            allWordsCovered, solveTime, predictions>>]_vars

\* Re-solve was pressed on a puzzle of 15 words with results and an
\* exclusion: only the error was recorded
C30_Witness ==
    /\ lastEvent.event = "solve_refused"
    /\ Len(puzzleData.words) = WORD_COUNT - 1
    /\ error # <<>>
    /\ ~loading
    /\ inflight = <<>>
    /\ excludedPredictions # <<>>
    /\ topSolution # <<>>

\* a response of the uniform shape
Uniform(resp) ==
    \/ resp.status = 200 /\ resp.success
    \/ resp.status \in {400, 500, 504} /\ ~resp.success /\ resp.error # <<>>

\* C27: every response of the solve endpoint is either 200 with success =
\* true or one of 400/500/504 with success = false and a non-empty error;
\* every path through the handler ends with one such response.
C27_UniformResponses ==
    /\ \A i \in 1..Len(responses) : Uniform(responses[i])
    /\ Len(responses) <= 1
    /\ pc = "responded" => Len(responses) = 1

\* the temp file could not be created: the outer catch answered
C27_Witness ==
    /\ pc = "responded"
    /\ req.parsable
    /\ writes = 1
    /\ spawns = 0
    /\ responses = <<Failure(400, WriteErrorMessage)>>

\* C28: every response of the fetch endpoint with status 200 and success =
\* true carries data.words with exactly 16 entries together with a
\* puzzle_id and a date.
C28_FetchSuccessComplete ==
    \A i \in 1..Len(responses) :
        (responses[i].status = 200 /\ responses[i].success)
        => /\ responses[i].data.words.present
           /\ Len(responses[i].data.words.val) = WORD_COUNT
           /\ responses[i].data.puzzle_id.present
           /\ responses[i].data.date.present

\* request i has named its temp file and has not answered yet
Active(i) == handlers[i].pc \in {"spawned", "running", "nofile"}

\* C26: two requests handled at the same time have distinct temp files, the
\* script of a spawned process is there until the process has opened it, and
\* no process finds its script gone
C26_OwnTempFile ==
    /\ \A i, j \in 1..2 :
         (i # j /\ Active(i) /\ Active(j)) =>
             handlers[i].tmpFile # handlers[j].tmpFile
    /\ \A i \in 1..2 :
         handlers[i].pc = "spawned" => Range(handlers[i].tmpFile) \subseteq fs
    /\ \A i \in 1..2 : handlers[i].pc # "nofile"

\* C31: a request for which a process was spawned is eventually answered, and
\* answered once; the first of close, error and the timer settles the spawn
\* promise and no later event changes the settlement or adds a response.
C31_SettledOnce ==
    /\ (pc = "awaiting") ~> (pc = "responded" /\ Len(responses) = 1)
    /\ [](spawns = 1 => Len(responses) <= 1)
    /\ [][promise.state \in {"resolved", "rejected"}
            => /\ promise'.state = promise.state
               /\ promise'.stdout = promise.stdout
               /\ promise'.stderr = promise.stderr
               /\ promise'.error = promise.error
               /\ (Len(responses) = 1 => responses' = responses)]_vars

C31_Witness ==
    /\ pc = "responded" /\ spawns = 1 /\ Len(responses) = 1
    /\ timer = "fired" /\ proc = "closed" /\ exitCode = <<-1>>
    /\ promise.state = "rejected" /\ promise.error = TimeoutMessage

\* the payload v has none of top_solution, all_predictions and predictions
NoLists(v) ==
    ~v.top_solution.present /\ ~v.all_predictions.present /\ ~v.predictions.present

\* C36: when the line handed to the parser parses to an object with none of
\* top_solution, all_predictions and predictions, the request is answered 200
\* with success = true, an empty top_solution, an empty all_predictions and
\* all_words_covered = false.
C36_EmptyPayloadIs200 ==
    (pc = "responded" /\ promise.state = "resolved" /\ jsonLine # NotParsed
        /\ JSONParse(jsonLine, result).ok
        /\ NoLists(JSONParse(jsonLine, result).val))
    => /\ Len(responses) = 1
       /\ responses[1].status = 200 /\ responses[1].success
       /\ responses[1].top_solution = <<>>
       /\ responses[1].all_predictions = <<>>
       /\ responses[1].all_words_covered = "false"

\* C35: the prediction list of the page is the top solution of the Solver,
\* null or empty at the page when the top solution is empty.
C35_PageShowsTopSolution ==
    IF predictions.present THEN predictions.val = topSolution
    ELSE topSolution = <<>>

\* the oldest request returns and the puzzle is no longer the one it was
\* started for
StaleCompletion ==
    /\ CompletionStep
    /\ Head(inflight).puzzle_id # puzzleData.puzzle_id

\* C33: the completion of a request started for another puzzle leaves the
\* results, the error and the solve time of the session alone and reports
\* nothing to the page.
C33_StaleOutcomeDropped ==
    [][StaleCompletion =>
          UNCHANGED <<topSolution, allPredictions, allWordsCovered, solveTime,
                      error, predictions>>]_vars

\* no displayed group has the word-set of an excluded group
NoExcludedShown ==
    \A x \in Range(excludedPredictions) :
        \A p \in Range(topSolution) \cup Range(allPredictions) : ~SameWords(p, x)

\* the groups the completing request delivers share no word with the
\* exclude_words the request was sent with
EngineRespects ==
    \A p \in Range(topSolution') \cup Range(allPredictions') :
        UpperSet(p.words) \cap UpperSet(Head(inflight).body.exclude_words) = {}

\* C34: as long as the groups each request delivers avoid the exclude_words
\* it carried, no step (an exclusion, a completion, whatever their order)
\* brings a group with the word-set of an excluded group into topSolution or
\* allPredictions.
C34_ExcludedNeverShown ==
    [][(NoExcludedShown /\ (CompletionStep => EngineRespects))
          => NoExcludedShown']_vars

\* every group of top has the case-folded word-set of some group of all
Within(top, all) ==
    \A i \in 1..Len(top) :
        \E j \in 1..Len(all) : UpperSet(top[i].words) = UpperSet(all[j].words)

C37_SolvingEnds ==
    [][/\ loading' => inflight' # <<>>
       /\ CompletionStep =>
            /\ loading' = FALSE
            /\ IF lastEvent'.event = "solve_succeeded"
               THEN /\ error' = <<>>
                    /\ predictions' = Some(topSolution')
                    /\ Within(topSolution', allPredictions')
               ELSE /\ error' # <<>>
                    /\ topSolution' = <<>>
                    /\ allPredictions' = <<>>]_vars

\* a solve started with the LLM toggle set has failed with the network
\* error, and the Solver is no longer loading
C37_Witness ==
    /\ lastEvent.event = "solve_failed"
    /\ ~loading /\ inflight = <<>>
    /\ error = NetworkError.error
    /\ topSolution = <<>>
    /\ useLLM

====
